---- MODULE Spec2Model ----
(***************************************************************************)
(* commit-genius: the notes-augmented commit message pipeline.             *)
(*                                                                         *)
(* One invocation of the CLI is one process: main parses the arguments and *)
(* AICommitGenerator.run sequences the notes store, the staged-change      *)
(* check, the model call, the prefix step, the commit (or amend) and the   *)
(* notes cleanup.  The notes file, the repository root, the staged change  *)
(* set and the last commit are the state shared by successive invocations. *)
(*                                                                         *)
(* Text is a sequence of one-character strings.  A diff is abstracted to   *)
(* its length and the marker substrings it contains, which is all the code *)
(* reads of it (String.length and String.includes).                        *)
(***************************************************************************)
EXTENDS Integers, Sequences, FiniteSets, TLC

\* ------------------------------------------------------------------ bounds
MaxNotes == 2        \* notes a collection may hold before add is no longer tried
MaxClock == 1        \* instants new Date() may return
SmallDiffLen == 20   \* length of the small staged diff
MaxBody == 2         \* characters between the lead and the tail of a model response

\* ------------------------------------------------------- program constants
maxDiffLength == 30000
maxBuffer == 1024 * 1024 * 10
\* exec's default maxBuffer, which getLastCommitInfo does not raise
defaultMaxBuffer == 1024 * 1024

\* -------------------------------------------------------------------- text
Procs == {1, 2}
Repos == {"/repo/a", "/repo/b"}

\* JavaScript's undefined and null, as values no string equals.
Undefined == <<"undefined-value">>
Null == <<"null-value">>

\* JavaScript truthiness of a string-or-undefined value.
Truthy(v) == v # Undefined /\ v # Null /\ v # <<>>

IsSpace(c) == c \in {" ", "\n"}

RECURSIVE TrimStart(_)
TrimStart(s) ==
    IF s = <<>> THEN <<>>
    ELSE IF IsSpace(Head(s)) THEN TrimStart(Tail(s)) ELSE s

RECURSIVE TrimEnd(_)
TrimEnd(s) ==
    IF s = <<>> THEN <<>>
    ELSE IF IsSpace(s[Len(s)]) THEN TrimEnd(SubSeq(s, 1, Len(s) - 1)) ELSE s

\* String.prototype.trim
Trim(s) == TrimEnd(TrimStart(s))

\* The values the shell may pass after --note / -n.
NoteArgs == {<<>>, <<" ">>, <<" ", "b">>, <<"a", " ">>}

\* ------------------------------------------------------------- notes store
\* A StagedNote: { message, timestamp }.
StagedNote(message, timestamp) == [message |-> message, timestamp |-> timestamp]

\* The notes file <git-dir>/commit-genius-notes.json: absent, unparseable, or
\* the JSON of a StagedNotes object { notes, repository }.
NoFile == [exists |-> FALSE, parseable |-> FALSE, repository |-> "", notes |-> <<>>]
BadFile == [exists |-> TRUE, parseable |-> FALSE, repository |-> "", notes |-> <<>>]

\* JSON.stringify of { notes, repository }, as writeFileSync stores it.
StagedNotesJson(noteSeq, repository) ==
    [exists |-> TRUE, parseable |-> TRUE, repository |-> repository, notes |-> noteSeq]

\* getNotesFilePath: git rev-parse --git-dir fails outside a repository.
getNotesFilePathThrows(gitOk) == ~gitOk

\* getCurrentRepoPath: git rev-parse --show-toplevel fails outside a repository.
getCurrentRepoPathThrows(gitOk) == ~gitOk

\* Mutant: loadStagedNotes without its try/catch.
loadStagedNotesUncaught(file, gitOk) == ~gitOk \/ (file.exists /\ ~file.parseable)

\* loadStagedNotes catches whatever its body throws.
loadStagedNotesThrows(file, gitOk) == FALSE

\* Mutant: loadStagedNotes without the comparison of the stored repository.
loadStagedNotesAnyRepository(file, gitOk, currentRepo) ==
    IF ~gitOk \/ ~file.exists \/ ~file.parseable THEN <<>> ELSE file.notes

\* loadStagedNotes: every failure yields the empty sequence.
loadStagedNotes(file, gitOk, currentRepo) ==
    IF getNotesFilePathThrows(gitOk) \/ getCurrentRepoPathThrows(gitOk) THEN <<>>
    ELSE IF ~file.exists THEN <<>>
    ELSE IF ~file.parseable THEN <<>>
    ELSE IF file.repository # currentRepo THEN <<>>
    ELSE file.notes

\* saveStagedNotes: throws outside a repository, else replaces the whole file.
saveStagedNotesThrows(gitOk) ==
    getNotesFilePathThrows(gitOk) \/ getCurrentRepoPathThrows(gitOk)

saveStagedNotes(file, noteSeq, gitOk, currentRepo) ==
    IF saveStagedNotesThrows(gitOk) THEN file
    ELSE StagedNotesJson(noteSeq, currentRepo)

\* Mutant: the note keeps the argument as given.
newNoteUntrimmed(message, now) == StagedNote(message, now)

\* The note addStagedNote builds from its argument.
newNote(message, now) == StagedNote(Trim(message), now)

\* Mutant: unlinkSync without the existsSync test before it.
clearStagedNotesUnguarded(file, gitOk) == ~gitOk \/ ~file.exists

\* clearStagedNotes: unlinks the file if it exists; throws outside a repository.
clearStagedNotesThrows(file, gitOk) == getNotesFilePathThrows(gitOk)

clearStagedNotes(file, gitOk) ==
    IF clearStagedNotesThrows(file, gitOk) THEN file
    ELSE IF file.exists THEN NoFile ELSE file

\* The messages of a note sequence, in order.
Messages(noteSeq) == [i \in 1..Len(noteSeq) |-> noteSeq[i].message]

\* ------------------------------------------------------------ diff payload
\* The two substrings generateCommitMessage looks for in its argument.
FilesChanged == "Files changed:"
NoteThisIsA == "Note: This is a"
Markers == {FilesChanged, NoteThisIsA}

\* A diff as git prints it, trimmed: its length and the markers it contains.
NoDiff == [len |-> 0, marks |-> {}]
LargeLens == {maxDiffLength, maxDiffLength + 1, maxBuffer + 1}
MarkSets == {{}, {FilesChanged}, {NoteThisIsA}}
Diffs ==
    {[len |-> SmallDiffLen, marks |-> m] : m \in MarkSets}
        \cup {[len |-> n, marks |-> {}] : n \in LargeLens}

\* What git writes to stdout for a diff: the text and its final newline.
StdoutLen(d) == IF d = NoDiff THEN 0 ELSE d.len + 1

\* The string checkStagedChanges returns: the trimmed diff itself, the summary
\* template of the large-diff branch, or the template of the buffer-error branch.
DiffText(d) == [source |-> "diff", diff |-> d]
SummaryText == [source |-> "summary", diff |-> NoDiff]
StatsText == [source |-> "stats", diff |-> NoDiff]
EmptyText == DiffText(NoDiff)

\* String.includes on a payload: both templates spell both markers out.
Includes(text, marker) ==
    IF text.source = "diff" THEN marker \in text.diff.marks ELSE TRUE

\* Mutant: run without its if (!diff) test.
IsEmptyTextNever(text) == FALSE

\* !diff : the empty string is the only falsy payload.
IsEmptyText(text) == text.source = "diff" /\ text.diff.len = 0

\* getFileChangeSummary: git diff --cached --name-status, trimmed, is empty
\* exactly when nothing is staged.
getFileChangeSummaryIsEmpty(stagedSet) == stagedSet = NoDiff

\* Mutant: the size test against the read buffer instead of maxDiffLength.
IsLargeDiffAboveBuffer(d) == d.len > maxBuffer

\* The size test of checkStagedChanges.
IsLargeDiff(d) == d.len > maxDiffLength

\* checkStagedChanges throws when git fails (outside a repository).
checkStagedChangesThrows(gitOk) == ~gitOk

checkStagedChanges(stagedSet) ==
    IF getFileChangeSummaryIsEmpty(stagedSet) THEN EmptyText
    ELSE IF StdoutLen(stagedSet) > maxBuffer THEN StatsText
    ELSE IF IsLargeDiff(stagedSet) THEN SummaryText
    ELSE DiffText(stagedSet)

\* getLastCommitInfo throws outside a repository or when git show prints more
\* than exec's default buffer holds.
getLastCommitInfoThrows(gitOk, head) == ~gitOk \/ StdoutLen(head) > defaultMaxBuffer

getLastCommitInfo(head) == DiffText(head)

\* git show of the last commit once git commit --amend has taken the staged
\* changes into it: no shorter than either, and holding the text of both.
AmendedDiff(head, stagedSet) ==
    IF stagedSet = NoDiff THEN head
    ELSE [len |-> IF head.len > stagedSet.len THEN head.len ELSE stagedSet.len,
          marks |-> head.marks \cup stagedSet.marks]

\* The flag generateCommitMessage derives from its argument.
isFileSummary(text) == Includes(text, FilesChanged) \/ Includes(text, NoteThisIsA)

\* Mutant: the template interpolates the notes whole, timestamps included.
PromptOfWholeNotes(text, noteSeq) ==
    [isFileSummary |-> isFileSummary(text),
     notes |-> noteSeq,
     payload |-> text]

\* The prompt, as the values interpolated into its template.
Prompt(text, noteSeq) ==
    [isFileSummary |-> isFileSummary(text),
     notes |-> Messages(noteSeq),
     payload |-> text]
NoPrompt == [isFileSummary |-> FALSE, notes |-> <<>>, payload |-> EmptyText]

\* ------------------------------------------------- message post-processing
IsQuote(c) == c \in {"\"", "'"}

\* text.split('\n')[0]
FirstLine(s) ==
    IF \E i \in 1..Len(s) : s[i] = "\n"
    THEN SubSeq(s, 1, (CHOOSE i \in 1..Len(s) :
                          s[i] = "\n" /\ \A j \in 1..(i - 1) : s[j] # "\n") - 1)
    ELSE s

\* replace(/^["']|["']$/g, '')
StripQuotes(s) ==
    LET first == s # <<>> /\ IsQuote(s[1])
        last == Len(s) >= 2 /\ IsQuote(s[Len(s)])
    IN SubSeq(s, IF first THEN 2 ELSE 1, IF last THEN Len(s) - 1 ELSE Len(s))

GitCommitM == <<"g", "i", "t", " ", "c", "o", "m", "m", "i", "t", " ", "-", "m">>

StartsWith(s, pre) == Len(s) >= Len(pre) /\ SubSeq(s, 1, Len(pre)) = pre

\* replace(/^git commit -m\s*/, '')
StripCommand(s) ==
    IF StartsWith(s, GitCommitM)
    THEN TrimStart(SubSeq(s, Len(GitCommitM) + 1, Len(s)))
    ELSE s

\* The clean-up generateCommitMessage applies to the model's response text.
CleanResponse(text) == StripCommand(StripQuotes(Trim(FirstLine(Trim(text)))))

\* The responses the model is taken to return in a run.
Responses == {<<"f", "i", "x">>, <<"\"", "f", "i", "x", "\"">>, <<"f", "i", "x", "\n", "y">>}

\* Every text of at most n characters over an alphabet.
Texts(alphabet, n) == UNION {[1..k -> alphabet] : k \in 0..n}

\* What response.text() may hold: a lead (quotes, an echoed command), a body
\* and a tail (quotes, white space, further lines).
ResponseLeads ==
    {<<>>, <<" ">>, <<"\"">>, <<"'">>, GitCommitM, GitCommitM \o <<" ">>,
     GitCommitM \o <<" ", "\"">>, <<"\"">> \o GitCommitM \o <<" ">>}
ResponseTails ==
    {<<>>, <<"\"">>, <<"'">>, <<" ">>, <<"\n", "b">>, <<"\"", "\n">>}
ModelResponses ==
    {lead \o body \o tail :
        lead \in ResponseLeads, body \in Texts({"a", "\"", " "}, MaxBody),
        tail \in ResponseTails}

\* --------------------------------------------------------- the commit command
\* exec hands the command string to /bin/sh.  What sh makes of the text after
\* -m, read from left to right: a double quote opens or closes a double-quoted
\* stretch, a single quote outside one opens or closes a single-quoted stretch,
\* a space outside both ends the word, every other character is itself.  A
\* stretch left open at the end is a syntax error.
RECURSIVE ShellWords(_, _, _, _)
ShellWords(s, mode, word, started) ==
    IF s = <<>>
    THEN [ok |-> mode = "none", words |-> IF started THEN <<word>> ELSE <<>>]
    ELSE LET c == Head(s)
             rest == Tail(s)
         IN IF mode = "none"
            THEN IF c = " "
                 THEN LET r == ShellWords(rest, "none", <<>>, FALSE)
                      IN [ok |-> r.ok,
                          words |-> (IF started THEN <<word>> ELSE <<>>) \o r.words]
                 ELSE IF c = "\"" THEN ShellWords(rest, "double", word, TRUE)
                 ELSE IF c = "'" THEN ShellWords(rest, "single", word, TRUE)
                 ELSE ShellWords(rest, "none", Append(word, c), TRUE)
            ELSE IF mode = "double"
            THEN IF c = "\"" THEN ShellWords(rest, "none", word, TRUE)
                 ELSE ShellWords(rest, "double", Append(word, c), TRUE)
            ELSE IF c = "'" THEN ShellWords(rest, "none", word, TRUE)
                 ELSE ShellWords(rest, "single", Append(word, c), TRUE)

\* git aborts a commit whose message is empty or white space only.
GitAcceptsMessage(message) == Trim(message) # <<>>

\* The arguments git receives after -m from `git commit -m "${message}"`: the
\* first is the message, any further ones are pathspecs.
GitCommitArgs(message) ==
    ShellWords(<<"\"">> \o message \o <<"\"">>, "none", <<>>, FALSE)

\* ----------------------------------------------------------- configuration
\* JavaScript's a || b on strings.
Or(a, b) == IF Truthy(a) THEN a ELSE b

\* A Config: what JSON.parse reads of a config file.  An absent apiKey or model
\* is Undefined, an absent prefixFormat is "", an absent autoPrefixFromBranch
\* is "undefined".
Config(apiKey, model, prefixFormat, autoPrefixFromBranch) ==
    [apiKey |-> apiKey, model |-> model, prefixFormat |-> prefixFormat,
     autoPrefixFromBranch |-> autoPrefixFromBranch]

\* {} : no config file is found.
NoConfig == Config(Undefined, Undefined, "", "undefined")

\* The module variables configLoaded and cachedConfig before the first load.
NotLoaded == [configLoaded |-> FALSE, cachedConfig |-> NoConfig]

\* loadGlobalConfig: the cached config, or else what the files yield.
loadGlobalConfig(cache, file) ==
    IF cache.configLoaded THEN cache.cachedConfig ELSE file

\* configLoaded and cachedConfig after a call of loadGlobalConfig.
Cached(cache, file) ==
    [configLoaded |-> TRUE, cachedConfig |-> loadGlobalConfig(cache, file)]

\* The variables of process.env the program reads.
Environment(primaryKey, legacyKey, primaryModel, legacyModel) ==
    [COMMIT_GENIUS_API_KEY |-> primaryKey, GEMINI_API_KEY |-> legacyKey,
     COMMIT_GENIUS_MODEL |-> primaryModel, GEMINI_MODEL |-> legacyModel]

NoEnvironment == Environment(Undefined, Undefined, Undefined, Undefined)

\* The values a source supplies, named after the source.
PrimaryKey == <<"COMMIT_GENIUS_API_KEY">>
LegacyKey == <<"GEMINI_API_KEY">>
ConfigKey == <<"config.apiKey">>
FlagModel == <<"--model">>
PrimaryModel == <<"COMMIT_GENIUS_MODEL">>
LegacyModel == <<"GEMINI_MODEL">>
ConfigModel == <<"config.model">>

\* Only COMMIT_GENIUS_API_KEY is set.
KeyEnvironment == Environment(PrimaryKey, Undefined, Undefined, Undefined)

\* The hardcoded default model, 'gemini-2.5-flash-lite'.
DefaultModel == <<"gemini-2.5-flash-lite">>

\* getApiKey reads the config only when neither variable is set.
getApiKeyLoadsConfig(env) ==
    ~Truthy(env.COMMIT_GENIUS_API_KEY) /\ ~Truthy(env.GEMINI_API_KEY)

getApiKey(env, cache, file) ==
    Or(env.COMMIT_GENIUS_API_KEY,
       Or(env.GEMINI_API_KEY, loadGlobalConfig(cache, file).apiKey))

getDefaultModelLoadsConfig(env) ==
    ~Truthy(env.COMMIT_GENIUS_MODEL) /\ ~Truthy(env.GEMINI_MODEL)

getDefaultModel(env, cache, file) ==
    Or(env.COMMIT_GENIUS_MODEL,
       Or(env.GEMINI_MODEL, Or(loadGlobalConfig(cache, file).model, DefaultModel)))

\* The constructor of AICommitGenerator: modelName || getDefaultModel().
selectedModel(modelName, env, cache, file) ==
    Or(modelName, getDefaultModel(env, cache, file))

AICommitGenerator(apiKey, model) == [apiKey |-> apiKey, model |-> model]
NoGenerator == AICommitGenerator(Undefined, Undefined)

\* ------------------------------------------------------------------ prefix
LowerCase == <<"a", "b", "c", "d", "e", "f", "g", "h", "i", "j", "k", "l", "m",
               "n", "o", "p", "q", "r", "s", "t", "u", "v", "w", "x", "y", "z">>
UpperCase == <<"A", "B", "C", "D", "E", "F", "G", "H", "I", "J", "K", "L", "M",
               "N", "O", "P", "Q", "R", "S", "T", "U", "V", "W", "X", "Y", "Z">>

\* [A-Z]
IsUpper(c) == \E i \in 1..Len(UpperCase) : UpperCase[i] = c

\* [A-Z] under the i flag
IsLetter(c) == IsUpper(c) \/ \E i \in 1..Len(LowerCase) : LowerCase[i] = c

\* \d
IsDigit(c) == c \in {"0", "1", "2", "3", "4", "5", "6", "7", "8", "9"}

ToUpper(c) ==
    IF \E i \in 1..Len(LowerCase) : LowerCase[i] = c
    THEN UpperCase[CHOOSE i \in 1..Len(LowerCase) : LowerCase[i] = c]
    ELSE c

\* String.prototype.toUpperCase
toUpperCase(s) == [i \in 1..Len(s) |-> ToUpper(s[i])]

\* What a greedy [A-Z]+ (i flag), [A-Z]+ or \d+ consumes of s from index i on.
LetterRun(s, i) ==
    CHOOSE n \in 0..(Len(s) + 1 - i) :
        /\ \A k \in 0..(n - 1) : IsLetter(s[i + k])
        /\ i + n <= Len(s) => ~IsLetter(s[i + n])

UpperRun(s, i) ==
    CHOOSE n \in 0..(Len(s) + 1 - i) :
        /\ \A k \in 0..(n - 1) : IsUpper(s[i + k])
        /\ i + n <= Len(s) => ~IsUpper(s[i + n])

DigitRun(s, i) ==
    CHOOSE n \in 0..(Len(s) + 1 - i) :
        /\ \A k \in 0..(n - 1) : IsDigit(s[i + k])
        /\ i + n <= Len(s) => ~IsDigit(s[i + n])

\* (?:feature|bugfix|hotfix|chore)
BranchKinds == {<<"f", "e", "a", "t", "u", "r", "e">>,
                <<"b", "u", "g", "f", "i", "x">>,
                <<"h", "o", "t", "f", "i", "x">>,
                <<"c", "h", "o", "r", "e">>}

\* The index after ^(?:feature|bugfix|hotfix|chore)\/ under the i flag, 0 when
\* the branch name does not start so.
AfterBranchKind(s) ==
    IF \E k \in BranchKinds :
           /\ Len(s) > Len(k)
           /\ toUpperCase(SubSeq(s, 1, Len(k))) = toUpperCase(k)
           /\ s[Len(k) + 1] = "/"
    THEN 2 + Len(CHOOSE k \in BranchKinds :
                     /\ Len(s) > Len(k)
                     /\ toUpperCase(SubSeq(s, 1, Len(k))) = toUpperCase(k)
                     /\ s[Len(k) + 1] = "/")
    ELSE 0

\* The capture of ([A-Z]+-\d+) (dash) or ([A-Z]+\d+) (no dash) under the i flag,
\* matched at index i of s; Null when it does not match there.
TicketAt(s, i, dash) ==
    LET letters == LetterRun(s, i)
        sep == IF dash THEN 1 ELSE 0
        digits == IF i + letters + sep <= Len(s) + 1
                  THEN DigitRun(s, i + letters + sep) ELSE 0
    IN IF /\ letters >= 1
          /\ dash => (i + letters <= Len(s) /\ s[i + letters] = "-")
          /\ digits >= 1
       THEN SubSeq(s, i, i + letters + sep + digits - 1)
       ELSE Null

\* const patterns = [ ... ] of extractPrefixFromBranch, each as the capture of
\* its match on the branch name.
PatternMatch(n, s) ==
    IF n = 1 THEN (IF AfterBranchKind(s) > 0
                   THEN TicketAt(s, AfterBranchKind(s), TRUE) ELSE Null)
    ELSE IF n = 2 THEN TicketAt(s, 1, TRUE)
    ELSE IF n = 3 THEN (IF AfterBranchKind(s) > 0
                        THEN TicketAt(s, AfterBranchKind(s), FALSE) ELSE Null)
    ELSE TicketAt(s, 1, FALSE)

\* Mutant: the capture is returned as the branch spells it.
extractPrefixFromBranchAsSpelled(branchName) ==
    IF \E n \in 1..4 : PatternMatch(n, branchName) # Null
    THEN PatternMatch(CHOOSE n \in 1..4 :
                          /\ PatternMatch(n, branchName) # Null
                          /\ \A m \in 1..(n - 1) : PatternMatch(m, branchName) = Null,
                      branchName)
    ELSE Null

\* Mutant: match[0], the whole match, is returned in place of the capture.
extractPrefixFromBranchWholeMatch(branchName) ==
    IF \E n \in 1..4 : PatternMatch(n, branchName) # Null
    THEN LET first == CHOOSE n \in 1..4 :
                          /\ PatternMatch(n, branchName) # Null
                          /\ \A m \in 1..(n - 1) : PatternMatch(m, branchName) = Null
         IN toUpperCase((IF first \in {1, 3}
                         THEN SubSeq(branchName, 1, AfterBranchKind(branchName) - 1)
                         ELSE <<>>) \o PatternMatch(first, branchName))
    ELSE Null

\* extractPrefixFromBranch: the capture of the first pattern that matches,
\* upper-cased.
extractPrefixFromBranch(branchName) ==
    IF \E n \in 1..4 : PatternMatch(n, branchName) # Null
    THEN toUpperCase(PatternMatch(CHOOSE n \in 1..4 :
                                      /\ PatternMatch(n, branchName) # Null
                                      /\ \A m \in 1..(n - 1) :
                                             PatternMatch(m, branchName) = Null,
                                  branchName))
    ELSE Null

\* validatePrefix(prefix).valid: one of /^[A-Z]+-\d+$/, /^[A-Z]+\d+$/, /^#\d+$/,
\* /^[A-Z]{2,}-\d+$/ matches.
validatePrefix(s) ==
    LET uppers == UpperRun(s, 1)
        dashed == uppers < Len(s) /\ s[uppers + 1] = "-"
        tail == IF dashed THEN uppers + 2 ELSE uppers + 1
        digits == IF tail <= Len(s) THEN DigitRun(s, tail) ELSE 0
        toEnd == digits >= 1 /\ tail + digits = Len(s) + 1
    IN \/ uppers >= 1 /\ dashed /\ toEnd
       \/ uppers >= 1 /\ ~dashed /\ toEnd
       \/ Len(s) >= 2 /\ s[1] = "#" /\ DigitRun(s, 2) = Len(s) - 1
       \/ uppers >= 2 /\ dashed /\ toEnd

\* The branch of a fresh repository.
MainBranch == <<"m", "a", "i", "n">>

\* getCurrentBranch: stdout.trim() || null, and null when git fails.
getCurrentBranch(gitOk, branchName) ==
    IF ~gitOk THEN Null
    ELSE IF Trim(branchName) = <<>> THEN Null ELSE Trim(branchName)

\* config.autoPrefixFromBranch !== false
autoPrefixFromBranch(config) == config.autoPrefixFromBranch # "false"

\* getPrefix consults the branch exactly when it has no CLI prefix and the
\* config does not turn the detection off.
getPrefixReadsBranch(cliPrefix, config) ==
    ~Truthy(cliPrefix) /\ autoPrefixFromBranch(config)

\* getPrefix warns exactly when the CLI prefix fails validatePrefix.
getPrefixWarns(cliPrefix) == Truthy(cliPrefix) /\ ~validatePrefix(cliPrefix)

\* Mutant: the branch detection is tried before the CLI prefix.
getPrefixBranchFirst(cliPrefix, config, currentBranch) ==
    IF /\ autoPrefixFromBranch(config)
       /\ Truthy(currentBranch)
       /\ Truthy(extractPrefixFromBranch(currentBranch))
    THEN extractPrefixFromBranch(currentBranch)
    ELSE IF Truthy(cliPrefix) THEN cliPrefix
    ELSE Null

\* getPrefix, given the config loadGlobalConfig returns and the branch
\* getCurrentBranch returns.
getPrefix(cliPrefix, config, currentBranch) ==
    IF Truthy(cliPrefix) THEN cliPrefix
    ELSE IF /\ autoPrefixFromBranch(config)
            /\ Truthy(currentBranch)
            /\ Truthy(extractPrefixFromBranch(currentBranch))
    THEN extractPrefixFromBranch(currentBranch)
    ELSE Null

\* config.prefixFormat || 'brackets'
prefixFormat(config) ==
    IF config.prefixFormat = "" THEN "brackets" ELSE config.prefixFormat

\* Mutant: the switch without its case 'colon'.
formatCommitMessageBrackets(msg, pre, format) ==
    IF ~Truthy(pre) THEN msg
    ELSE <<"[">> \o pre \o <<"]", " ">> \o msg

formatCommitMessage(msg, pre, format) ==
    IF ~Truthy(pre) THEN msg
    ELSE IF format = "brackets" THEN <<"[">> \o pre \o <<"]", " ">> \o msg
    ELSE IF format = "colon" THEN pre \o <<":", " ">> \o msg
    ELSE <<"[">> \o pre \o <<"]", " ">> \o msg

\* ---------------------------------------------------------------- the CLI
\* main's reading of an option that takes a value: the argument after the flag,
\* when the flag is given and that argument is a non-empty string.
OptionValue(flagGiven, nextArg) ==
    IF flagGiven /\ Truthy(nextArg) THEN nextArg ELSE Undefined

\* What main reads of an option whose argument, when given, is one of args: the
\* flag may be absent, or be the last argument, or be followed by any of them.
OptionValues(args) ==
    {OptionValue(flagGiven, nextArg) :
        flagGiven \in BOOLEAN, nextArg \in args \cup {Undefined}}

CommitMessageOptions(dryRun, regenerate, model, cliPrefix, note, listNotes, clearNotes) ==
    [dryRun |-> dryRun, regenerate |-> regenerate, model |-> model,
     prefix |-> cliPrefix, note |-> note, listNotes |-> listNotes,
     clearNotes |-> clearNotes]

NoOptions ==
    CommitMessageOptions(FALSE, FALSE, Undefined, Undefined, Undefined, FALSE, FALSE)

\* Mutant: run without its if (options.regenerate) branch.
ModeWithoutRegenerate(o) ==
    IF Truthy(o.note) THEN "add"
    ELSE IF o.listNotes THEN "list"
    ELSE IF o.clearNotes THEN "clear"
    ELSE "generate"

\* Mutant: run without its if (options.listNotes) branch.
ModeWithoutList(o) ==
    IF Truthy(o.note) THEN "add"
    ELSE IF o.clearNotes THEN "clear"
    ELSE IF o.regenerate THEN "regenerate"
    ELSE "generate"

\* The branch of run an options object selects, in the order run tests them.
Mode(o) ==
    IF Truthy(o.note) THEN "add"
    ELSE IF o.listNotes THEN "list"
    ELSE IF o.clearNotes THEN "clear"
    ELSE IF o.regenerate THEN "regenerate"
    ELSE "generate"

\* ------------------------------------------------------------------- state
VARIABLES
    notesFile,      \* the notes file under the git directory
    repoRoot,       \* what git rev-parse --show-toplevel prints
    clock,          \* the instant the next new Date() returns
    staged,         \* the staged change set, as git diff --cached prints it
    headDiff,       \* the last commit, as git show prints it
    pc,             \* where each invocation stands
    opts,           \* the options main passes to run
    gitOk,          \* whether the invocation's git commands find a repository
    notes,          \* the local notes of addStagedNote and listStagedNotes
    diff,           \* run's diff (lastCommit.diff when regenerating)
    stagedNotes,    \* run's stagedNotes
    prompt,         \* the prompt generateCommitMessage sent to the model
    response,       \* the text the model returned
    commitMessage,  \* what generateCommitMessage returned
    prefix,         \* run's prefix, as getPrefix resolved it
    finalMessage,   \* the formatted message run prints
    recorded,       \* the message the commit or amend of this run recorded
    exitCode,       \* the exit code, -1 while the process runs
    calls,          \* how often the invocation called each collaborator
    notesBefore,    \* history: the notes file when the invocation started
    stagedBefore,   \* history: the staged change set when the invocation started
    added,          \* history: the --note arguments added since the store was empty
    pristine,       \* history: nothing but add touched the store since it was empty
    configFile,     \* the config the files under the home directory yield
    branch,         \* what git branch --show-current prints
    environ,        \* process.env of each invocation
    generator,      \* the AICommitGenerator main constructed
    cachedConfig    \* configLoaded and cachedConfig of each invocation

vars == <<notesFile, repoRoot, clock, staged, headDiff, pc, opts, gitOk, notes,
          diff, stagedNotes, prompt, commitMessage, finalMessage, recorded,
          exitCode, calls, notesBefore, stagedBefore, added, pristine,
          response, prefix, configFile, branch, environ, generator, cachedConfig>>

settings == <<configFile, branch>>
envVars == <<repoRoot, staged, headDiff, settings>>
processVars == <<gitOk, environ, generator, cachedConfig>>
messageVars == <<response, commitMessage>>
prefixVars == <<prefix, finalMessage>>
localVars == <<notes, diff, stagedNotes, prompt, messageVars, prefixVars, recorded>>
historyVars == <<added, pristine>>
before == <<notesBefore, stagedBefore>>

NoCalls == [check |-> 0, lastCommit |-> 0, load |-> 0, model |-> 0,
            commit |-> 0, amend |-> 0, clear |-> 0, branch |-> 0, warn |-> 0]

Called(p, what) == calls' = [calls EXCEPT ![p][what] = @ + 1]

Goto(p, label) == pc' = [pc EXCEPT ![p] = label]

\* The process ends: return from run (code 0) or process.exit(1).
Ends(p, code) ==
    /\ pc' = [pc EXCEPT ![p] = "done"]
    /\ exitCode' = [exitCode EXCEPT ![p] = code]

\* Mutant: the catch block prints the error and returns.
ThrowsSwallowed(p) == Ends(p, 0)

\* run's catch block: the error is printed and process.exit(1) is called.
Throws(p) == Ends(p, 1)

\* main returns, or exits, without having called run.
MainEnds(p, code) ==
    /\ pc' = [pc EXCEPT ![p] = "exited"]
    /\ exitCode' = [exitCode EXCEPT ![p] = code]

AllIdle == \A q \in Procs : pc[q] = "idle"

Init ==
    /\ notesFile = NoFile
    /\ repoRoot = "/repo/a"
    /\ clock = 0
    /\ staged = NoDiff
    /\ headDiff \in {NoDiff, [len |-> SmallDiffLen, marks |-> {}]}
    /\ pc = [p \in Procs |-> "idle"]
    /\ opts = [p \in Procs |-> NoOptions]
    /\ gitOk = [p \in Procs |-> TRUE]
    /\ notes = [p \in Procs |-> <<>>]
    /\ diff = [p \in Procs |-> EmptyText]
    /\ stagedNotes = [p \in Procs |-> <<>>]
    /\ prompt = [p \in Procs |-> NoPrompt]
    /\ response = [p \in Procs |-> Undefined]
    /\ commitMessage = [p \in Procs |-> Undefined]
    /\ prefix = [p \in Procs |-> Undefined]
    /\ finalMessage = [p \in Procs |-> Undefined]
    /\ recorded = [p \in Procs |-> Undefined]
    /\ exitCode = [p \in Procs |-> -1]
    /\ calls = [p \in Procs |-> NoCalls]
    /\ notesBefore = [p \in Procs |-> NoFile]
    /\ stagedBefore = [p \in Procs |-> NoDiff]
    /\ added = <<>>
    /\ pristine = TRUE
    /\ configFile = NoConfig
    /\ branch = MainBranch
    /\ environ = [p \in Procs |-> NoEnvironment]
    /\ generator = [p \in Procs |-> NoGenerator]
    /\ cachedConfig = [p \in Procs |-> NotLoaded]

\* ------------------------------------------------------------- environment
\* The working tree is moved or renamed: the same git directory, another root.
MoveRepository ==
    /\ AllIdle
    /\ \E r \in Repos \ {repoRoot} : repoRoot' = r
    /\ pristine' = FALSE
    /\ added' = <<>>
    /\ UNCHANGED <<notesFile, clock, staged, headDiff, settings, pc, opts, processVars, localVars,
                   exitCode, calls, before>>

\* The notes file is overwritten with something JSON.parse rejects.
CorruptNotesFile ==
    /\ AllIdle
    /\ notesFile # BadFile
    /\ notesFile' = BadFile
    /\ pristine' = FALSE
    /\ added' = <<>>
    /\ UNCHANGED <<envVars, clock, pc, opts, processVars, localVars, exitCode, calls,
                   before>>

\* The developer checks out, creates or renames a branch, or detaches HEAD.
CheckoutBranch(branches) ==
    /\ AllIdle
    /\ \E b \in branches \ {branch} : branch' = b
    /\ UNCHANGED <<notesFile, repoRoot, staged, headDiff, configFile, clock, pc, opts,
                   processVars, localVars, exitCode, calls, before, historyVars>>

\* The developer writes, edits or removes the global config file.
WriteConfig(configs) ==
    /\ AllIdle
    /\ \E c \in configs \ {configFile} : configFile' = c
    /\ UNCHANGED <<notesFile, repoRoot, staged, headDiff, branch, clock, pc, opts,
                   processVars, localVars, exitCode, calls, before, historyVars>>

\* The developer stages or unstages changes (git add, git restore --staged).
StageChanges(diffs) ==
    /\ AllIdle
    /\ \E d \in (diffs \cup {NoDiff}) \ {staged} : staged' = d
    /\ UNCHANGED <<notesFile, repoRoot, clock, headDiff, settings, pc, opts, processVars, localVars,
                   exitCode, calls, before, historyVars>>

\* -------------------------------------------------------------------- main
\* A process starts: its history snapshot, its environment and whether git
\* finds a repository.
Starts(p, env) ==
    /\ pc[p] = "idle"
    /\ notesBefore' = [notesBefore EXCEPT ![p] = notesFile]
    /\ stagedBefore' = [stagedBefore EXCEPT ![p] = staged]
    /\ environ' = [environ EXCEPT ![p] = env]
    /\ \E ok \in BOOLEAN : gitOk' = [gitOk EXCEPT ![p] = ok]

\* --init or --help: main prints and returns.
mainInfo(p, cli) ==
    /\ \E env \in cli.environs : Starts(p, env)
    /\ MainEnds(p, 0)
    /\ UNCHANGED <<notesFile, envVars, clock, opts, localVars, calls, historyVars,
                   generator, cachedConfig>>

\* No API key from the environment or the config file: process.exit(1).
mainNoApiKey(p, cli) ==
    /\ \E env \in cli.environs :
         /\ Starts(p, env)
         /\ ~Truthy(getApiKey(env, cachedConfig[p], configFile))
    /\ cachedConfig' = [cachedConfig EXCEPT ![p] = Cached(@, configFile)]
    /\ MainEnds(p, 1)
    /\ UNCHANGED <<notesFile, envVars, clock, opts, localVars, calls, historyVars,
                   generator>>

\* main parses the arguments, constructs the generator and calls run with the
\* options.
mainRun(p, cli) ==
    /\ \E env \in cli.environs,
          model \in OptionValues(cli.models),
          cliPrefix \in OptionValues(cli.prefixes),
          note \in OptionValues(cli.notes),
          dryRun \in cli.dryRuns,
          regenerate, listNotes, clearNotes \in BOOLEAN :
         LET apiKey == getApiKey(env, cachedConfig[p], configFile)
             loads == \/ getApiKeyLoadsConfig(env)
                      \/ ~Truthy(model) /\ getDefaultModelLoadsConfig(env)
             o == CommitMessageOptions(dryRun, regenerate, model, cliPrefix, note,
                                       listNotes, clearNotes)
         IN /\ Starts(p, env)
            /\ Truthy(apiKey)
            /\ generator' = [generator EXCEPT ![p] =
                   AICommitGenerator(apiKey,
                       selectedModel(model, env, cachedConfig[p], configFile))]
            /\ cachedConfig' = [cachedConfig EXCEPT ![p] =
                   IF loads THEN Cached(@, configFile) ELSE @]
            /\ Mode(o) \in cli.modes
            /\ Mode(o) = "add" => Len(notesFile.notes) < MaxNotes
            /\ opts' = [opts EXCEPT ![p] = o]
    /\ Goto(p, "run")
    /\ UNCHANGED <<notesFile, envVars, clock, localVars, exitCode, calls, historyVars>>

main(p, cli) == mainInfo(p, cli) \/ mainNoApiKey(p, cli) \/ mainRun(p, cli)

\* ------------------------------------------------------ run: note commands
\* addStagedNote, first half: const notes = await loadStagedNotes().
runAddLoad(p) ==
    /\ pc[p] = "run"
    /\ Mode(opts[p]) = "add"
    /\ Len(loadStagedNotes(notesFile, gitOk[p], repoRoot)) < MaxNotes
    /\ Called(p, "load")
    /\ IF loadStagedNotesThrows(notesFile, gitOk[p])
       THEN Throws(p) /\ UNCHANGED notes
       ELSE /\ notes' = [notes EXCEPT ![p] =
                            loadStagedNotes(notesFile, gitOk[p], repoRoot)]
            /\ Goto(p, "addSave")
            /\ UNCHANGED exitCode
    /\ UNCHANGED <<notesFile, envVars, clock, opts, processVars, diff, stagedNotes, prompt,
                   messageVars, prefixVars, recorded, before, historyVars>>

\* addStagedNote, second half: notes.push(newNote); await saveStagedNotes(notes).
runAddSave(p) ==
    /\ pc[p] = "addSave"
    /\ LET pushed == Append(notes[p], newNote(opts[p].note, clock))
       IN /\ notes' = [notes EXCEPT ![p] = pushed]
          /\ notesFile' = saveStagedNotes(notesFile, pushed, gitOk[p], repoRoot)
    /\ clock' = IF clock < MaxClock THEN clock + 1 ELSE clock
    /\ IF saveStagedNotesThrows(gitOk[p])
       THEN Throws(p) /\ UNCHANGED added
       ELSE Ends(p, 0) /\ added' = IF pristine THEN Append(added, opts[p].note) ELSE added
    /\ UNCHANGED <<envVars, opts, processVars, diff, stagedNotes, prompt, messageVars,
                   prefixVars, recorded, calls, before, pristine>>

\* listStagedNotes: prints what loadStagedNotes returns.
runListNotes(p) ==
    /\ pc[p] = "run"
    /\ Mode(opts[p]) = "list"
    /\ Called(p, "load")
    /\ IF loadStagedNotesThrows(notesFile, gitOk[p])
       THEN Throws(p) /\ UNCHANGED notes
       ELSE /\ notes' = [notes EXCEPT ![p] =
                            loadStagedNotes(notesFile, gitOk[p], repoRoot)]
            /\ Ends(p, 0)
    /\ UNCHANGED <<notesFile, envVars, clock, opts, processVars, diff, stagedNotes, prompt,
                   messageVars, prefixVars, recorded, before, historyVars>>

\* The effect of a clearStagedNotes call by process p.
Clears(p) ==
    /\ notesFile' = clearStagedNotes(notesFile, gitOk[p])
    /\ Called(p, "clear")
    /\ IF clearStagedNotesThrows(notesFile, gitOk[p])
       THEN Throws(p) /\ UNCHANGED historyVars
       ELSE Ends(p, 0) /\ added' = <<>> /\ pristine' = TRUE

\* --clear-notes
runClearNotes(p) ==
    /\ pc[p] = "run"
    /\ Mode(opts[p]) = "clear"
    /\ Clears(p)
    /\ UNCHANGED <<envVars, clock, opts, processVars, localVars, before>>

\* The process is gone; its locals with it.
Exit(p) ==
    /\ pc[p] \in {"done", "exited"}
    /\ pc' = [pc EXCEPT ![p] = "idle"]
    /\ opts' = [opts EXCEPT ![p] = NoOptions]
    /\ gitOk' = [gitOk EXCEPT ![p] = TRUE]
    /\ environ' = [environ EXCEPT ![p] = NoEnvironment]
    /\ generator' = [generator EXCEPT ![p] = NoGenerator]
    /\ cachedConfig' = [cachedConfig EXCEPT ![p] = NotLoaded]
    /\ notes' = [notes EXCEPT ![p] = <<>>]
    /\ diff' = [diff EXCEPT ![p] = EmptyText]
    /\ stagedNotes' = [stagedNotes EXCEPT ![p] = <<>>]
    /\ prompt' = [prompt EXCEPT ![p] = NoPrompt]
    /\ response' = [response EXCEPT ![p] = Undefined]
    /\ commitMessage' = [commitMessage EXCEPT ![p] = Undefined]
    /\ prefix' = [prefix EXCEPT ![p] = Undefined]
    /\ finalMessage' = [finalMessage EXCEPT ![p] = Undefined]
    /\ recorded' = [recorded EXCEPT ![p] = Undefined]
    /\ exitCode' = [exitCode EXCEPT ![p] = -1]
    /\ calls' = [calls EXCEPT ![p] = NoCalls]
    /\ notesBefore' = [notesBefore EXCEPT ![p] = NoFile]
    /\ stagedBefore' = [stagedBefore EXCEPT ![p] = NoDiff]
    /\ UNCHANGED <<notesFile, envVars, clock, historyVars>>

\* ----------------------------------------------------- run: the generation
\* const diff = await this.checkStagedChanges(); if (!diff) process.exit(1).
runCheckStaged(p) ==
    /\ pc[p] = "run"
    /\ Mode(opts[p]) = "generate"
    /\ Called(p, "check")
    /\ IF checkStagedChangesThrows(gitOk[p])
       THEN Throws(p) /\ UNCHANGED diff
       ELSE /\ diff' = [diff EXCEPT ![p] = checkStagedChanges(staged)]
            /\ IF IsEmptyText(checkStagedChanges(staged))
               THEN Ends(p, 1)
               ELSE Goto(p, "loadNotes") /\ UNCHANGED exitCode
    /\ UNCHANGED <<notesFile, envVars, clock, opts, processVars, notes, stagedNotes, prompt,
                   messageVars, prefixVars, recorded, before, historyVars>>

\* Regenerate: const lastCommit = await getLastCommitInfo().
runLastCommit(p) ==
    /\ pc[p] = "run"
    /\ Mode(opts[p]) = "regenerate"
    /\ Called(p, "lastCommit")
    /\ IF getLastCommitInfoThrows(gitOk[p], headDiff)
       THEN Throws(p) /\ UNCHANGED diff
       ELSE /\ diff' = [diff EXCEPT ![p] = getLastCommitInfo(headDiff)]
            /\ Goto(p, "loadNotes")
            /\ UNCHANGED exitCode
    /\ UNCHANGED <<notesFile, envVars, clock, opts, processVars, notes, stagedNotes, prompt,
                   messageVars, prefixVars, recorded, before, historyVars>>

\* const stagedNotes = await loadStagedNotes().
runLoadNotes(p) ==
    /\ pc[p] = "loadNotes"
    /\ Called(p, "load")
    /\ IF loadStagedNotesThrows(notesFile, gitOk[p])
       THEN Throws(p) /\ UNCHANGED stagedNotes
       ELSE /\ stagedNotes' = [stagedNotes EXCEPT ![p] =
                                  loadStagedNotes(notesFile, gitOk[p], repoRoot)]
            /\ Goto(p, "generate")
            /\ UNCHANGED exitCode
    /\ UNCHANGED <<notesFile, envVars, clock, opts, processVars, notes, diff, prompt,
                   messageVars, prefixVars, recorded, before, historyVars>>

\* Mutant: the catch block returns a stock message.
ModelErrorFallsBack(p) ==
    /\ commitMessage' = [commitMessage EXCEPT ![p] = <<"f", "i", "x">>]
    /\ Goto(p, "prefix")
    /\ UNCHANGED <<response, exitCode>>

\* The model call fails: catch (error) { throw new Error(...) }, which run's
\* catch block ends with process.exit(1).
ModelError(p) == Throws(p) /\ UNCHANGED messageVars

\* generateCommitMessage(diff): loads the notes again, builds the prompt, calls
\* the model once and cleans its response; a failed call is rethrown.
generateCommitMessage(p, responses) ==
    /\ pc[p] = "generate"
    /\ IF loadStagedNotesThrows(notesFile, gitOk[p])
       THEN /\ Throws(p)
            /\ calls' = [calls EXCEPT ![p]["load"] = @ + 1]
            /\ UNCHANGED <<prompt, messageVars>>
       ELSE /\ prompt' = [prompt EXCEPT ![p] =
                Prompt(diff[p], loadStagedNotes(notesFile, gitOk[p], repoRoot))]
            /\ calls' = [calls EXCEPT ![p]["load"] = @ + 1, ![p]["model"] = @ + 1]
            /\ \/ ModelError(p)
               \/ /\ \E text \in responses :
                       /\ response' = [response EXCEPT ![p] = text]
                       /\ commitMessage' =
                              [commitMessage EXCEPT ![p] = CleanResponse(text)]
                  /\ Goto(p, "prefix")
                  /\ UNCHANGED exitCode
    /\ UNCHANGED <<notesFile, envVars, clock, opts, processVars, notes, diff, stagedNotes,
                   prefixVars, recorded, before, historyVars>>

\* Mutant: run without its if (options.dryRun) return.
StopsNever(o) == FALSE

\* if (options.dryRun) return, before the commit or the amend.
StopsBeforeCommit(o) == o.dryRun

\* getPrefix, loadGlobalConfig, formatCommitMessage, the message is printed;
\* a dry run returns.
runPrefix(p) ==
    /\ pc[p] = "prefix"
    /\ LET config == loadGlobalConfig(cachedConfig[p], configFile)
           reads == getPrefixReadsBranch(opts[p].prefix, config)
           resolved == getPrefix(opts[p].prefix, config,
                                 getCurrentBranch(gitOk[p], branch))
       IN /\ cachedConfig' = [cachedConfig EXCEPT ![p] = Cached(@, configFile)]
          /\ calls' = [calls EXCEPT
                 ![p]["branch"] = IF reads THEN @ + 1 ELSE @,
                 ![p]["warn"] = IF getPrefixWarns(opts[p].prefix) THEN @ + 1 ELSE @]
          /\ prefix' = [prefix EXCEPT ![p] = resolved]
          /\ finalMessage' = [finalMessage EXCEPT ![p] =
                 formatCommitMessage(commitMessage[p], resolved, prefixFormat(config))]
    /\ IF StopsBeforeCommit(opts[p])
       THEN Ends(p, 0)
       ELSE Goto(p, "commit") /\ UNCHANGED exitCode
    /\ UNCHANGED <<notesFile, envVars, clock, opts, gitOk, environ, generator, notes,
                   diff, stagedNotes, prompt, messageVars, recorded, before,
                   historyVars>>

\* await this.commitChanges(finalMessage): git commit -m "<message>", through
\* the shell; git records its first argument after -m.
commitChanges(p) ==
    /\ pc[p] = "commit"
    /\ ~opts[p].regenerate
    /\ Called(p, "commit")
    /\ \/ Throws(p) /\ UNCHANGED <<staged, headDiff, recorded>>
       \/ /\ GitCommitArgs(finalMessage[p]).ok
          /\ GitAcceptsMessage(GitCommitArgs(finalMessage[p]).words[1])
          /\ staged # NoDiff
          /\ headDiff' = staged
          /\ staged' = NoDiff
          /\ recorded' = [recorded EXCEPT ![p] = GitCommitArgs(finalMessage[p]).words[1]]
          /\ Goto(p, "cleanup")
          /\ UNCHANGED exitCode
    /\ UNCHANGED <<notesFile, repoRoot, settings, clock, opts, processVars, notes, diff,
                   stagedNotes,
                   prompt, messageVars, prefixVars, before, historyVars>>

\* await amendCommitMessage(finalMessage): git commit --amend -m "<message>",
\* which also takes whatever is staged into the amended commit.
amendCommitMessage(p) ==
    /\ pc[p] = "commit"
    /\ opts[p].regenerate
    /\ Called(p, "amend")
    /\ \/ Throws(p) /\ UNCHANGED <<staged, headDiff, recorded>>
       \/ /\ GitCommitArgs(finalMessage[p]).ok
          /\ GitAcceptsMessage(GitCommitArgs(finalMessage[p]).words[1])
          /\ headDiff' = AmendedDiff(headDiff, staged)
          /\ staged' = NoDiff
          /\ recorded' = [recorded EXCEPT ![p] = GitCommitArgs(finalMessage[p]).words[1]]
          /\ Goto(p, "cleanup")
          /\ UNCHANGED exitCode
    /\ UNCHANGED <<notesFile, repoRoot, settings, clock, opts, processVars, notes, diff,
                   stagedNotes,
                   prompt, messageVars, prefixVars, before, historyVars>>

\* Mutant: the cleanup is never entered.
ShouldClearNever(noteSeq) == FALSE

\* The test that guards the cleanup: if (stagedNotes.length > 0).
ShouldClear(noteSeq) == Len(noteSeq) > 0

\* After a successful commit or amend: clear the notes that were loaded.
runCleanup(p) ==
    /\ pc[p] = "cleanup"
    /\ IF ShouldClear(stagedNotes[p])
       THEN Clears(p)
       ELSE Ends(p, 0) /\ UNCHANGED <<notesFile, calls, historyVars>>
    /\ UNCHANGED <<envVars, clock, opts, processVars, localVars, before>>

\* ------------------------------------------------------- the specification
run(p, responses) ==
    \/ runAddLoad(p)
    \/ runAddSave(p)
    \/ runListNotes(p)
    \/ runClearNotes(p)
    \/ runCheckStaged(p)
    \/ runLastCommit(p)
    \/ runLoadNotes(p)
    \/ generateCommitMessage(p, responses)
    \/ runPrefix(p)
    \/ commitChanges(p)
    \/ amendCommitMessage(p)
    \/ runCleanup(p)

Modes == {"add", "list", "clear", "regenerate", "generate"}
PlainDiffs == {[len |-> SmallDiffLen, marks |-> {}]}

\* The prefix given with --prefix / -p.
CliPrefixes == {<<"J", "R", "-", "1">>}

\* The command lines and environments of invocations that take the API key from
\* COMMIT_GENIUS_API_KEY, when it is set, and pass no --model.
CommandLines(modes) ==
    [modes |-> modes, dryRuns |-> BOOLEAN, notes |-> NoteArgs,
     prefixes |-> CliPrefixes, models |-> {},
     environs |-> {NoEnvironment, KeyEnvironment}]

\* Invocations run one after another, every command of the CLI among them,
\* on small staged changes.
Next ==
    \/ MoveRepository
    \/ CorruptNotesFile
    \/ StageChanges(PlainDiffs)
    \/ AllIdle /\ main(1, CommandLines(Modes))
    \/ run(1, Responses)
    \/ Exit(1)

Spec == Init /\ [][Next]_vars

\* Generation runs one after another on staged changes of every size.
NextDiffs ==
    \/ StageChanges(Diffs)
    \/ AllIdle /\ main(1, CommandLines({"regenerate", "generate"}))
    \/ runCheckStaged(1)
    \/ runLastCommit(1)
    \/ runLoadNotes(1)
    \/ generateCommitMessage(1, Responses)
    \/ runPrefix(1)
    \/ commitChanges(1)
    \/ amendCommitMessage(1)
    \/ runCleanup(1)
    \/ Exit(1)

SpecDiffs == Init /\ [][NextDiffs]_vars

\* The command lines of dry runs of the generation.
DryRuns == [CommandLines({"generate"}) EXCEPT !.dryRuns = {TRUE}]

\* Dry runs one after another, the model answering with every response.
NextResponses ==
    \/ StageChanges(PlainDiffs)
    \/ AllIdle /\ main(1, DryRuns)
    \/ runCheckStaged(1)
    \/ runLoadNotes(1)
    \/ generateCommitMessage(1, ModelResponses)
    \/ runPrefix(1)
    \/ Exit(1)

SpecResponses == Init /\ [][NextResponses]_vars

\* Branch names: the empty output of a detached HEAD, names of the forms the
\* patterns look for, in either case, and names of other forms.
BranchNames ==
    {<<>>,
     <<"m", "a", "i", "n">>,
     <<"f", "e", "a", "t", "u", "r", "e", "/", "J", "R", "-", "1", "2", "3", "4", "-", "a", "d", "d", "-", "a", "u", "t", "h">>,
     <<"P", "R", "O", "J", "5", "6", "7", "-", "f", "e", "a", "t", "u", "r", "e">>,
     <<"b", "u", "g", "f", "i", "x", "/", "p", "r", "o", "j", "-", "5">>,
     <<"j", "r", "-", "1", "2">>,
     <<"c", "h", "o", "r", "e", "/", "a", "b", "1">>,
     <<"H", "o", "t", "f", "i", "x", "/", "x">>,
     <<"f", "e", "a", "t", "u", "r", "e", "-", "1">>,
     <<"x", "1", "y">>,
     <<"#", "1", "2">>,
     <<"r", "e", "l", "e", "a", "s", "e", "/", "A", "B", "-", "1">>,
     <<"f", "e", "a", "t", "u", "r", "e", "/">>}

\* Values of --prefix: of the forms validatePrefix accepts, and others.
PrefixArgs == {<<"J", "R", "-", "1">>, <<"j", "r", "-", "1">>, <<"#", "1", "2">>, <<"P", "R", "O", "J", "5", "6", "7">>, <<"1", "2">>}

\* Config files that set the prefix options in every way.
PrefixConfigs ==
    {Config(Undefined, Undefined, format, auto) :
        format \in {"", "brackets", "colon", "dots"},
        auto \in {"undefined", "true", "false"}}

\* The command lines of dry runs, with every value of --prefix.
PrefixRuns == [DryRuns EXCEPT !.prefixes = PrefixArgs]

\* Dry runs one after another, on every branch, under every prefix option.
NextPrefix ==
    \/ CheckoutBranch(BranchNames)
    \/ WriteConfig(PrefixConfigs)
    \/ StageChanges(PlainDiffs)
    \/ AllIdle /\ main(1, PrefixRuns)
    \/ runCheckStaged(1)
    \/ runLoadNotes(1)
    \/ generateCommitMessage(1, {<<>>, <<"f", "i", "x">>})
    \/ runPrefix(1)
    \/ Exit(1)

SpecPrefix == Init /\ [][NextPrefix]_vars

\* Every way of setting, or not, the four variables of the environment.
Environments ==
    {Environment(primaryKey, legacyKey, primaryModel, legacyModel) :
        primaryKey \in {Undefined, PrimaryKey}, legacyKey \in {Undefined, LegacyKey},
        primaryModel \in {Undefined, PrimaryModel},
        legacyModel \in {Undefined, LegacyModel}}

\* Config files with and without an API key and a model.
SourceConfigs ==
    {Config(apiKey, model, "", "undefined") :
        apiKey \in {Undefined, ConfigKey}, model \in {Undefined, ConfigModel}}

\* The command lines of --list-notes, with or without --model, in every
\* environment.
SourceRuns ==
    [modes |-> {"list"}, dryRuns |-> {FALSE}, notes |-> {}, prefixes |-> {},
     models |-> {FlagModel}, environs |-> Environments]

\* Invocations one after another, every source of the API key and of the model
\* name supplying a value or not.
NextSources ==
    \/ WriteConfig(SourceConfigs)
    \/ AllIdle /\ main(1, SourceRuns)
    \/ runListNotes(1)
    \/ Exit(1)

SpecSources == Init /\ [][NextSources]_vars

\* No other invocation is under way: each is idle or has ended.
Alone(p) == \A q \in Procs \ {p} : pc[q] \in {"idle", "done", "exited"}

\* Only GEMINI_API_KEY and GEMINI_MODEL are set.
LegacyEnvironment == Environment(Undefined, LegacyKey, Undefined, LegacyModel)

\* Dry runs of the generation; dry runs of the regeneration and note commands,
\* with --model, in the legacy environment.
FirstRuns == [DryRuns EXCEPT !.prefixes = {}, !.notes = {}]
SecondRuns ==
    [modes |-> {"add", "clear", "regenerate"}, dryRuns |-> {TRUE},
     notes |-> {<<"a", " ">>}, prefixes |-> {}, models |-> {FlagModel},
     environs |-> {LegacyEnvironment}]

\* The one response of the model in these runs.
Fix == {<<"f", "i", "x">>}

\* Two terminals: in the first a dry run has built its prompt and not yet
\* gone; in the second notes are added and cleared and further dry runs build
\* theirs.  No two invocations run at once.
NextPrompts ==
    \/ StageChanges({d \in Diffs : d.len = SmallDiffLen /\ NoteThisIsA \notin d.marks})
    \/ Alone(1) /\ main(1, FirstRuns)
    \/ runCheckStaged(1)
    \/ runLoadNotes(1)
    \/ generateCommitMessage(1, Fix)
    \/ runPrefix(1)
    \/ Exit(1)
    \/ Alone(2) /\ main(2, SecondRuns)
    \/ runAddLoad(2)
    \/ runAddSave(2)
    \/ runClearNotes(2)
    \/ runLastCommit(2)
    \/ runLoadNotes(2)
    \/ generateCommitMessage(2, Fix)
    \/ runPrefix(2)
    \/ Exit(2)

SpecPrompts == Init /\ [][NextPrompts]_vars

\* fs.writeFileSync opens the file with flag 'w', which truncates it, and then
\* writes the data: an invocation that reads between the two finds the file
\* empty, and JSON.parse rejects the empty string.
TruncatedFile == BadFile

\* addStagedNote under another invocation's eyes, up to the open of
\* writeFileSync: notes.push(newNote), saveStagedNotes resolves the path and
\* the root, the file is opened and truncated.
runAddOpen(p) ==
    /\ pc[p] = "addSave"
    /\ notes' = [notes EXCEPT ![p] = Append(@, newNote(opts[p].note, clock))]
    /\ clock' = IF clock < MaxClock THEN clock + 1 ELSE clock
    /\ IF saveStagedNotesThrows(gitOk[p])
       THEN Throws(p) /\ UNCHANGED <<notesFile, historyVars>>
       ELSE /\ notesFile' = TruncatedFile
            /\ pristine' = FALSE
            /\ added' = <<>>
            /\ Goto(p, "addWrite")
            /\ UNCHANGED exitCode
    /\ UNCHANGED <<envVars, opts, processVars, diff, stagedNotes, prompt, messageVars,
                   prefixVars, recorded, calls, before>>

\* The write of writeFileSync: the file holds the JSON of the notes the
\* invocation loaded and the one it pushed.
runAddWrite(p) ==
    /\ pc[p] = "addWrite"
    /\ notesFile' = StagedNotesJson(notes[p], repoRoot)
    /\ Ends(p, 0)
    /\ UNCHANGED <<envVars, clock, opts, processVars, localVars, calls, before,
                   historyVars>>

\* The command lines of two terminals, COMMIT_GENIUS_API_KEY set in both:
\* --note a in the first, --note b in the second.
FirstAdds ==
    [modes |-> {"add"}, dryRuns |-> {FALSE}, notes |-> {<<"a">>}, prefixes |-> {},
     models |-> {}, environs |-> {KeyEnvironment}]
SecondAdds == [FirstAdds EXCEPT !.notes = {<<"b">>}]

\* Two adds at once on one notes file: each invocation starts whenever it is
\* idle, and their steps interleave in every order.
NextAdds ==
    \/ mainRun(1, FirstAdds)
    \/ runAddLoad(1)
    \/ runAddOpen(1)
    \/ runAddWrite(1)
    \/ Exit(1)
    \/ mainRun(2, SecondAdds)
    \/ runAddLoad(2)
    \/ runAddOpen(2)
    \/ runAddWrite(2)
    \/ Exit(2)

SpecAdds == Init /\ [][NextAdds]_vars

\* The command lines of commits and amends.
CommitRuns == [FirstAdds EXCEPT !.modes = {"regenerate", "generate"}, !.notes = {}]

\* A commit or an amend in one terminal while notes are added in another: the
\* steps of the two invocations interleave in every order.
NextRaces ==
    \/ StageChanges(PlainDiffs)
    \/ mainRun(1, CommitRuns)
    \/ runCheckStaged(1)
    \/ runLastCommit(1)
    \/ runLoadNotes(1)
    \/ generateCommitMessage(1, Fix)
    \/ runPrefix(1)
    \/ commitChanges(1)
    \/ amendCommitMessage(1)
    \/ runCleanup(1)
    \/ Exit(1)
    \/ mainRun(2, SecondAdds)
    \/ runAddLoad(2)
    \/ runAddOpen(2)
    \/ runAddWrite(2)
    \/ Exit(2)

SpecRaces == Init /\ [][NextRaces]_vars

\* The command lines of commits and amends, with and without --prefix.
ShellRuns == [CommitRuns EXCEPT !.prefixes = CliPrefixes]

\* Commits and amends one after another, the model answering with every
\* response.
NextShell ==
    \/ StageChanges(PlainDiffs)
    \/ AllIdle /\ mainRun(1, ShellRuns)
    \/ runCheckStaged(1)
    \/ runLastCommit(1)
    \/ runLoadNotes(1)
    \/ generateCommitMessage(1, ModelResponses)
    \/ runPrefix(1)
    \/ commitChanges(1)
    \/ amendCommitMessage(1)
    \/ runCleanup(1)
    \/ Exit(1)

SpecShell == Init /\ [][NextShell]_vars

\* ============================================================== properties
\* The invocation is under way or has ended in run (not idle, not ended in main).
InRun(p) == pc[p] \notin {"idle", "exited"}

\* The options name a notes command: --note <message>, --list-notes, --clear-notes.
NotesCommand(o) == Truthy(o.note) \/ o.listNotes \/ o.clearNotes

\* The options select --list-notes (no --note before it).
ListCommand(o) == ~Truthy(o.note) /\ o.listNotes

\* The options select --clear-notes (no --note or --list-notes before it).
ClearCommand(o) == ~Truthy(o.note) /\ ~o.listNotes /\ o.clearNotes

\* C1: starting from an empty notes store in one repository, after add(m1) ..
\* add(mk) run one after another (k >= 1), list returns exactly k notes whose
\* messages are trim(m1) .. trim(mk), in insertion order.
C1_AddThenList ==
    \A p \in Procs :
        (pc[p] = "done" /\ ListCommand(opts[p]) /\ gitOk[p] /\ pristine /\ added # <<>>)
            => /\ exitCode[p] = 0
               /\ Len(notes[p]) = Len(added)
               /\ \A i \in 1..Len(added) : notes[p][i].message = Trim(added[i])

\* Two notes with different messages were added and then listed.
C1_Witness ==
    \E p \in Procs :
        /\ pc[p] = "done" /\ ListCommand(opts[p]) /\ gitOk[p] /\ pristine
        /\ Len(added) = 2
        /\ Trim(added[1]) # Trim(added[2])
        /\ Len(notes[p]) = 2

\* The notes file an invocation found holds notes stored under another root than
\* the current one.
ForeignNotes(p) ==
    /\ notesBefore[p].exists
    /\ notesBefore[p].parseable
    /\ notesBefore[p].notes # <<>>
    /\ notesBefore[p].repository # repoRoot

\* C2: notes persisted while the repository root was A are never returned by a
\* load evaluated with root B # A, though both resolve to the same notes file:
\* the load returns the empty sequence and raises no error.
C2_RepositoryIsolation ==
    \A p \in Procs :
        (InRun(p) /\ gitOk[p] /\ ForeignNotes(p))
            => /\ (ListCommand(opts[p]) /\ pc[p] = "done")
                      => (notes[p] = <<>> /\ exitCode[p] = 0)
               /\ (Truthy(opts[p].note) /\ pc[p] = "addSave") => notes[p] = <<>>
               /\ ~NotesCommand(opts[p])
                      => /\ stagedNotes[p] = <<>>
                         /\ prompt[p].notes = <<>>
                         /\ pc[p] \in {"generate", "prefix", "commit", "cleanup"}
                                => exitCode[p] = -1

\* A list ran in a repository whose notes file was written under another root.
C2_Witness ==
    \E p \in Procs :
        /\ pc[p] = "done" /\ ListCommand(opts[p]) /\ gitOk[p] /\ ForeignNotes(p)
        /\ notesFile = notesBefore[p]

\* C3: after a generate-and-commit run, or a regenerate-and-amend run, that
\* loaded at least one note and whose commit or amend succeeded, the notes file
\* no longer exists and a following list returns the empty sequence.
C3_CommitClearsNotes ==
    \A p \in Procs :
        (pc[p] = "done" /\ ~NotesCommand(opts[p])
              /\ Len(stagedNotes[p]) > 0 /\ recorded[p] # Undefined)
            => /\ ~notesFile.exists
               /\ loadStagedNotes(notesFile, gitOk[p], repoRoot) = <<>>
               /\ exitCode[p] = 0

\* A commit succeeded in a run that had loaded two notes.
C3_Witness ==
    \E p \in Procs :
        /\ pc[p] = "done" /\ ~NotesCommand(opts[p]) /\ ~opts[p].regenerate
        /\ Len(stagedNotes[p]) = 2 /\ recorded[p] # Undefined

\* The commit or the amend of the invocation was called and failed.
CommitFailed(p) ==
    /\ pc[p] = "done"
    /\ calls[p].commit + calls[p].amend > 0
    /\ recorded[p] = Undefined

\* C4: when the commit (or amend) subprocess fails, the run ends with exit code 1
\* and the notes file is as it was before the run: clearStagedNotes is not called.
C4_FailedCommitKeepsNotes ==
    \A p \in Procs :
        CommitFailed(p)
            => /\ exitCode[p] = 1
               /\ notesFile = notesBefore[p]
               /\ calls[p].clear = 0

\* A commit failed in a run that had loaded notes.
C4_Witness ==
    \E p \in Procs : CommitFailed(p) /\ Len(stagedNotes[p]) > 0 /\ notesFile.exists

\* C5: in dry-run mode (generate or regenerate) the run computes and displays
\* the final message and stops: neither commit nor amend is called and the run
\* leaves the notes file, and what is staged, unchanged.
C5_DryRunWritesNothing ==
    \A p \in Procs :
        (InRun(p) /\ opts[p].dryRun /\ ~NotesCommand(opts[p]))
            => /\ calls[p].commit = 0
               /\ calls[p].amend = 0
               /\ calls[p].clear = 0
               /\ recorded[p] = Undefined
               /\ notesFile = notesBefore[p]
               /\ staged = stagedBefore[p]
               /\ pc[p] \notin {"commit", "cleanup"}
               /\ (pc[p] = "done" /\ exitCode[p] = 0)
                      => (finalMessage[p] # Undefined /\ calls[p].model = 1)

\* A dry run with notes in the store printed its message and returned.
C5_Witness ==
    \E p \in Procs :
        /\ pc[p] = "done" /\ exitCode[p] = 0
        /\ opts[p].dryRun /\ ~NotesCommand(opts[p])
        /\ Len(stagedNotes[p]) > 0
        /\ finalMessage[p] # Undefined

\* What C6 requires of an invocation that found nothing staged.
NothingStagedOutcome(p) ==
    /\ calls[p].model = 0
    /\ calls[p].commit = 0
    /\ calls[p].amend = 0
    /\ notesFile = notesBefore[p]
    /\ pc[p] = "done" => exitCode[p] = 1

\* C6 as stated: when the staged change set is empty and the regenerate flag is
\* not set, the run exits with code 1, the model is never called, commit is not
\* invoked and the notes file is not modified.
C6_AsStated ==
    \A p \in Procs :
        (InRun(p) /\ stagedBefore[p] = NoDiff /\ ~opts[p].regenerate)
            => NothingStagedOutcome(p)

\* C6 as amended: the same, for a run given no notes command (a notes command
\* is served, with exit code 0, whatever is staged).
C6_NothingStagedExits ==
    \A p \in Procs :
        (InRun(p) /\ stagedBefore[p] = NoDiff /\ ~opts[p].regenerate
              /\ ~NotesCommand(opts[p]))
            => NothingStagedOutcome(p)

\* A generation run inside a repository found nothing staged and has ended,
\* with notes in the store.
C6_Witness ==
    \E p \in Procs :
        /\ pc[p] = "done" /\ gitOk[p]
        /\ stagedBefore[p] = NoDiff /\ ~opts[p].regenerate /\ ~NotesCommand(opts[p])
        /\ calls[p].check = 1
        /\ notesFile.notes # <<>>

C8_ClearIdempotent ==
    \A p \in Procs :
        (pc[p] = "done" /\ ClearCommand(opts[p]) /\ gitOk[p])
            => (notesFile = NoFile /\ exitCode[p] = 0)

\* A clear has ended that found no notes file, as a clear leaves it.
C8_Witness ==
    \E p \in Procs :
        /\ pc[p] = "done" /\ ClearCommand(opts[p]) /\ gitOk[p]
        /\ notesBefore[p] = NoFile
        /\ calls[p].clear = 1

\* A load by the invocation meets one of the failures: git finds no repository,
\* the file is missing, its content is not JSON, or it was stored under another
\* repository root.
LoadFailure(p) ==
    \/ ~gitOk[p]
    \/ ~notesBefore[p].exists
    \/ ~notesBefore[p].parseable
    \/ notesBefore[p].repository # repoRoot

\* C9: load fails soft: on every such failure it returns the empty sequence and
\* passes no exception to its caller.
C9_LoadFailsSoft ==
    \A p \in Procs :
        /\ (InRun(p) /\ ListCommand(opts[p]) /\ pc[p] = "done")
               => /\ exitCode[p] = 0
                  /\ LoadFailure(p) => notes[p] = <<>>
        /\ (InRun(p) /\ Truthy(opts[p].note) /\ pc[p] = "done" /\ exitCode[p] = 1)
               => /\ ~gitOk[p]
                  /\ calls[p].load = 1
                  /\ Len(notes[p]) = 1
        /\ (InRun(p) /\ Truthy(opts[p].note) /\ pc[p] = "addSave" /\ LoadFailure(p))
               => notes[p] = <<>>
        /\ (InRun(p) /\ ~NotesCommand(opts[p]) /\ notesFile = notesBefore[p]
                 /\ LoadFailure(p))
               => /\ stagedNotes[p] = <<>>
                  /\ prompt[p].notes = <<>>
                  /\ (gitOk[p] /\ calls[p].load > 0 /\ calls[p].model = 0)
                         => pc[p] = "generate"

\* A list has ended that found a notes file JSON.parse rejects.
C9_Witness ==
    \E p \in Procs :
        /\ pc[p] = "done" /\ ListCommand(opts[p]) /\ gitOk[p]
        /\ notesBefore[p] = BadFile

\* C10: for every non-empty staged diff shorter than the size ceiling, the
\* payload of the prompt is the raw diff and the is-summary flag the prompt
\* builder uses is false, whatever text the diff contains.
C10_SmallDiffIsNoSummary ==
    \A p \in Procs :
        (InRun(p) /\ ~NotesCommand(opts[p]) /\ ~opts[p].regenerate
              /\ calls[p].model > 0
              /\ stagedBefore[p] # NoDiff /\ stagedBefore[p].len < maxDiffLength)
            => /\ prompt[p].payload = DiffText(stagedBefore[p])
               /\ ~prompt[p].isFileSummary

\* The invocation is a generation from the staged changes that reached the model.
GeneratedFromStaged(p) ==
    /\ InRun(p) /\ ~NotesCommand(opts[p]) /\ ~opts[p].regenerate
    /\ calls[p].model > 0

\* The prompt carries a synthesized summary and is built as for a summary.
PromptIsSummary(p) ==
    /\ prompt[p].payload \in {SummaryText, StatsText}
    /\ prompt[p].isFileSummary

\* C11 as stated: for every staged diff whose length is at or above the size
\* ceiling (30,000 characters), a diff of exactly 30,000 characters included, the
\* payload is a synthesized summary, not the raw diff, and the is-summary flag
\* is true.
C11_AsStated ==
    \A p \in Procs :
        (GeneratedFromStaged(p) /\ stagedBefore[p].len >= maxDiffLength)
            => PromptIsSummary(p)

\* C11 as amended: the same for every staged diff longer than the ceiling; a
\* diff of exactly 30,000 characters is sent as it is.
C11_LargeDiffIsSummary ==
    \A p \in Procs :
        /\ (GeneratedFromStaged(p) /\ stagedBefore[p].len > maxDiffLength)
               => PromptIsSummary(p)
        /\ (GeneratedFromStaged(p) /\ stagedBefore[p].len = maxDiffLength)
               => prompt[p].payload = DiffText(stagedBefore[p])

\* A staged diff one character longer than the ceiling reached the model as the
\* summary of the large-diff branch.
C11_Witness ==
    \E p \in Procs :
        /\ GeneratedFromStaged(p)
        /\ stagedBefore[p].len = maxDiffLength + 1
        /\ prompt[p].payload = SummaryText

\* The quote-and-command-prefix stripping step of the clean-up.
StripStep(text) == StripCommand(StripQuotes(text))

\* C12: message normalization is idempotent: for every raw model response r,
\* applying the quote-and-command-prefix stripping step to normalize(r) returns
\* normalize(r) unchanged.
C12_NormalizationIdempotent ==
    \A p \in Procs :
        response[p] # Undefined => StripStep(commitMessage[p]) = commitMessage[p]

\* The reference of C13: the first line of the trimmed response, trimmed, less
\* one pair of wrapping quotes if it both starts and ends with a quote, less a
\* leading git commit -m.
ReferenceMessage(text) ==
    LET line == Trim(FirstLine(Trim(text)))
        wrapped == Len(line) >= 2 /\ IsQuote(line[1]) /\ IsQuote(line[Len(line)])
    IN StripCommand(IF wrapped THEN SubSeq(line, 2, Len(line) - 1) ELSE line)

\* C13: for every raw model response the normalized message equals the
\* reference (wrapping quotes removed only as a pair) and contains no newline.
C13_MatchesReference ==
    \A p \in Procs :
        response[p] # Undefined
            => /\ commitMessage[p] = ReferenceMessage(response[p])
               /\ \A i \in 1..Len(commitMessage[p]) : commitMessage[p][i] # "\n"

\* The invocation has resolved its prefix and formatted its message.
Prefixed(p) == prefix[p] # Undefined

\* The config the invocation's run read.
ConfigOf(p) == cachedConfig[p].cachedConfig

\* C14: for every message msg and every non-empty prefix p,
\* formatCommitMessage(msg, p, 'brackets') is '[' + p + '] ' + msg and
\* formatCommitMessage(msg, p, 'colon') is p + ': ' + msg; for a null prefix
\* and any format the result is msg exactly.
C14_FormatsPrefix ==
    \A p \in Procs :
        Prefixed(p)
            => /\ (Truthy(prefix[p]) /\ ConfigOf(p).prefixFormat \in {"", "brackets"})
                      => finalMessage[p] =
                             <<"[">> \o prefix[p] \o <<"]", " ">> \o commitMessage[p]
               /\ (Truthy(prefix[p]) /\ ConfigOf(p).prefixFormat = "colon")
                      => finalMessage[p] = prefix[p] \o <<":", " ">> \o commitMessage[p]
               /\ prefix[p] = Null => finalMessage[p] = commitMessage[p]

\* A message was formatted with a prefix under the colon format.
C14_Witness ==
    \E p \in Procs :
        /\ Prefixed(p) /\ Truthy(prefix[p])
        /\ ConfigOf(p).prefixFormat = "colon"
        /\ commitMessage[p] # <<>>
        /\ Len(finalMessage[p]) = Len(prefix[p]) + 2 + Len(commitMessage[p])

\* The two texts are equal when case is ignored.
SameIgnoringCase(a, b) ==
    Len(a) = Len(b) /\ \A i \in 1..Len(a) : ToUpper(a[i]) = ToUpper(b[i])

\* The text is one or more letters, a dash if asked for, and one or more digits.
IsTicket(t, dash) ==
    \E k \in 1..Len(t) :
        LET d == IF dash THEN k + 2 ELSE k + 1
        IN /\ \A i \in 1..k : IsLetter(t[i])
           /\ dash => (k + 1 <= Len(t) /\ t[k + 1] = "-")
           /\ d <= Len(t)
           /\ \A i \in d..Len(t) : IsDigit(t[i])

\* The longest ticket that starts at index i of s, Null when there is none.
LongestTicket(s, i, dash) ==
    LET ends == {n \in i..Len(s) : IsTicket(SubSeq(s, i, n), dash)}
    IN IF ends = {} THEN Null
       ELSE SubSeq(s, i, CHOOSE n \in ends : \A m \in ends : m <= n)

\* Where the ticket starts after feature/, bugfix/, hotfix/ or chore/.
AfterKind(s) ==
    {Len(k) + 2 : k \in {k \in BranchKinds :
        /\ Len(s) > Len(k)
        /\ SameIgnoringCase(SubSeq(s, 1, Len(k)), k)
        /\ s[Len(k) + 1] = "/"}}

\* What each pattern of the documented list captures of a branch name.
Captures(s) ==
    <<IF AfterKind(s) = {} THEN Null
      ELSE LongestTicket(s, CHOOSE i \in AfterKind(s) : TRUE, TRUE),
      LongestTicket(s, 1, TRUE),
      IF AfterKind(s) = {} THEN Null
      ELSE LongestTicket(s, CHOOSE i \in AfterKind(s) : TRUE, FALSE),
      LongestTicket(s, 1, FALSE)>>

\* The capture of the first pattern that matches, upper-cased; Null when no
\* pattern matches.
FirstCapture(s) ==
    IF \A n \in 1..4 : Captures(s)[n] = Null THEN Null
    ELSE LET n == CHOOSE n \in 1..4 :
                      /\ Captures(s)[n] # Null
                      /\ \A m \in 1..(n - 1) : Captures(s)[m] = Null
         IN [i \in 1..Len(Captures(s)[n]) |-> ToUpper(Captures(s)[n][i])]

\* The invocation resolved its prefix from the branch: no CLI prefix, the
\* detection not turned off.
DetectsFromBranch(p) ==
    /\ Prefixed(p)
    /\ ~Truthy(opts[p].prefix)
    /\ ConfigOf(p).autoPrefixFromBranch # "false"

C16_PrefixPrecedence ==
    \A p \in Procs :
        Prefixed(p)
            => /\ Truthy(opts[p].prefix)
                      => /\ prefix[p] = opts[p].prefix
                         /\ calls[p].branch = 0
                         /\ calls[p].warn = IF validatePrefix(opts[p].prefix) THEN 0 ELSE 1
                         /\ exitCode[p] # 1
               /\ ~Truthy(opts[p].prefix)
                      => /\ calls[p].warn = 0
                         /\ calls[p].branch =
                                IF ConfigOf(p).autoPrefixFromBranch = "false" THEN 0 ELSE 1
                         /\ ConfigOf(p).autoPrefixFromBranch = "false" => prefix[p] = Null

\* A CLI prefix that fails the pattern check was used, with a warning, on a
\* branch that names another ticket.
C16_Witness ==
    \E p \in Procs :
        /\ Prefixed(p)
        /\ opts[p].prefix = <<"j", "r", "-", "1">>
        /\ ~validatePrefix(opts[p].prefix)
        /\ calls[p].warn = 1
        /\ FirstCapture(branch) = <<"P", "R", "O", "J", "5", "6", "7">>
        /\ ConfigOf(p).autoPrefixFromBranch # "false"
        /\ prefix[p] = opts[p].prefix

\* C17: the model name and the API key are chosen by the precedence CLI flag >
\* primary environment variable (COMMIT_GENIUS_*) > global config file > legacy
\* environment variable (GEMINI_*) > hardcoded default: whenever both the
\* config file and the legacy variable supply a value and no higher source
\* does, the config file's value is used.
C17_ConfigBeforeLegacy ==
    \A p \in Procs :
        generator[p] # NoGenerator
            => /\ generator[p].apiKey =
                      Or(environ[p].COMMIT_GENIUS_API_KEY,
                         Or(configFile.apiKey, environ[p].GEMINI_API_KEY))
               /\ generator[p].model =
                      Or(opts[p].model,
                         Or(environ[p].COMMIT_GENIUS_MODEL,
                            Or(configFile.model,
                               Or(environ[p].GEMINI_MODEL, DefaultModel))))

\* The invocation has built a prompt.
BuiltPrompt(p) == calls[p].model > 0

\* C18: the prompt text is a deterministic function of the diff payload and the
\* loaded note sequence: two prompt constructions given the same payload and
\* the same notes produce identical text, whatever the timestamps of the
\* notes, the config, the environment and the calls made before.
C18_PromptDeterministic ==
    \A p, q \in Procs :
        (/\ BuiltPrompt(p) /\ BuiltPrompt(q)
         /\ diff[p] = diff[q]
         /\ Messages(stagedNotes[p]) = Messages(stagedNotes[q]))
            => prompt[p] = prompt[q]

\* Two invocations built the same prompt from the same payload and notes of
\* the same messages but other timestamps, in different environments and
\* with different models.
C18_Witness ==
    \E p, q \in Procs :
        /\ BuiltPrompt(p) /\ BuiltPrompt(q)
        /\ diff[p] = diff[q]
        /\ stagedNotes[p] # <<>>
        /\ stagedNotes[p] # stagedNotes[q]
        /\ Messages(stagedNotes[p]) = Messages(stagedNotes[q])
        /\ environ[p] # environ[q]
        /\ generator[p].model # generator[q].model
        /\ prompt[p] = prompt[q]

\* The model call of the invocation failed: it was made and returned no text.
ModelFailed(p) == calls[p].model = 1 /\ response[p] = Undefined

\* C19: when the model call fails, the run surfaces the error and terminates
\* with exit code 1 without committing, amending or clearing notes; in every
\* run the model is called at most once (no retry, no fallback).
C19_ModelFailureEndsRun ==
    \A p \in Procs :
        /\ calls[p].model <= 1
        /\ ModelFailed(p)
               => /\ pc[p] = "done" /\ exitCode[p] = 1
                  /\ calls[p].commit = 0 /\ calls[p].amend = 0 /\ calls[p].clear = 0
                  /\ commitMessage[p] = Undefined /\ finalMessage[p] = Undefined
                  /\ recorded[p] = Undefined
                  /\ notesFile = notesBefore[p]
                  /\ staged = stagedBefore[p]

\* The model call failed in a run that was to commit and had loaded notes.
C19_Witness ==
    \E p \in Procs :
        /\ ModelFailed(p)
        /\ ~opts[p].dryRun /\ ~opts[p].regenerate
        /\ Len(stagedNotes[p]) > 0
        /\ notesFile.exists

\* The options select the regeneration (no notes command before it).
RegenerateCommand(o) == ~NotesCommand(o) /\ o.regenerate

\* The commit or the amend of the invocation was called and failed.
AmendFailed(p) == calls[p].amend = 1 /\ recorded[p] = Undefined

\* C20: in regenerate mode the run does not fail on an empty staged change
\* set: it loads the last commit's diff as the payload, generates and prefixes
\* a message from it, and (when not dry-run) invokes amend exactly once and
\* never invokes the plain commit.
C20_RegenerateAmends ==
    \A p \in Procs :
        (InRun(p) /\ RegenerateCommand(opts[p]) /\ stagedBefore[p] = NoDiff)
            => /\ calls[p].check = 0
               /\ calls[p].commit = 0
               /\ calls[p].amend <= 1
               /\ opts[p].dryRun => calls[p].amend = 0
               /\ (pc[p] = "done" /\ exitCode[p] = 1)
                      => (~gitOk[p] \/ ModelFailed(p) \/ AmendFailed(p))
               /\ calls[p].model = 1
                      => /\ calls[p].lastCommit = 1
                         /\ prompt[p].payload = diff[p]
                         /\ calls[p].amend = 0 => diff[p] = DiffText(headDiff)
               /\ (pc[p] = "done" /\ exitCode[p] = 0)
                      => /\ calls[p].model = 1
                         /\ Prefixed(p)
                         /\ finalMessage[p] =
                                formatCommitMessage(commitMessage[p], prefix[p],
                                                    prefixFormat(ConfigOf(p)))
                         /\ ~opts[p].dryRun
                                => (calls[p].amend = 1 /\ recorded[p] = finalMessage[p])

\* A regeneration with nothing staged has amended the last commit.
C20_Witness ==
    \E p \in Procs :
        /\ pc[p] = "done" /\ exitCode[p] = 0
        /\ RegenerateCommand(opts[p]) /\ ~opts[p].dryRun
        /\ stagedBefore[p] = NoDiff
        /\ calls[p].amend = 1
        /\ recorded[p] = finalMessage[p]

\* C21: every note add has persisted has a message that is non-empty after
\* trimming, whatever string the CLI accepted as the value of --note, a string
\* of nothing but whitespace included.
C21_NotesNonEmpty ==
    (notesFile.exists /\ notesFile.parseable)
        => \A i \in 1..Len(notesFile.notes) : Trim(notesFile.notes[i].message) # <<>>

\* The options name the add command: --note <message>.
AddCommand(o) == Truthy(o.note)

\* The notes of a sequence, as a set.
NoteSet(noteSeq) == {noteSeq[i] : i \in 1..Len(noteSeq)}

\* Both invocations are adds that found the same collection, or no file, when
\* they started, and both have saved.
BothAdded ==
    /\ \A p \in Procs : pc[p] = "done" /\ AddCommand(opts[p]) /\ exitCode[p] = 0
    /\ notesBefore[1] = notesBefore[2]
    /\ notesBefore[1].exists => notesBefore[1].parseable

\* C22: when two adds from separate processes interleave on one notes file,
\* every write replaces the whole file with a complete collection, every note
\* persisted before both adds is still in the file afterwards, and so is at
\* least one of the two new notes: at most one note is lost.
C22_LastWriterWins ==
    BothAdded
        => /\ notesFile.exists /\ notesFile.parseable
           /\ NoteSet(notesBefore[1].notes) \subseteq NoteSet(notesFile.notes)
           /\ \E p \in Procs : notes[p][Len(notes[p])] \in NoteSet(notesFile.notes)

\* C23: regenerate requires that nothing is staged: a regenerate run calls the
\* amend only when the staged change set is empty, so that an amend takes no
\* staged change into the last commit and changes nothing but its message.
C23_AmendOnlyWhenNothingStaged ==
    \A p \in Procs :
        (RegenerateCommand(opts[p]) /\ calls[p].amend > 0)
            => /\ stagedBefore[p] = NoDiff
               /\ recorded[p] # Undefined => staged = stagedBefore[p]

\* The invocation has run its git commit or git commit --amend command.
RanCommit(p) == calls[p].commit + calls[p].amend > 0

\* The steps of a run up to its prefix step have each been taken once: the
\* staged-change check or the last-commit load, the notes load, the model call
\* that returned a message, the prefix resolution and the formatting.
StepsBeforeCommit(p) ==
    /\ calls[p].check + calls[p].lastCommit = 1
    /\ calls[p].load >= 1
    /\ calls[p].model = 1 /\ response[p] # Undefined
    /\ Prefixed(p) /\ finalMessage[p] # Undefined

\* C24: in every run that reaches the commit or the amend, the steps come in
\* the order check of the staged changes (or load of the last commit), notes
\* load, model call, prefix resolution and formatting, commit or amend, notes
\* cleanup, each at most once; the commit or amend is never invoked before the
\* model has returned a message, and the message committed is the formatted
\* result of that model output.
C24_StepsInOrder ==
    \A p \in Procs :
        /\ pc[p] \in {"commit", "cleanup"} => StepsBeforeCommit(p)
        /\ pc[p] = "commit" => ~RanCommit(p) /\ calls[p].clear = 0
        /\ pc[p] = "cleanup" => recorded[p] # Undefined /\ calls[p].clear = 0
        /\ RanCommit(p)
               => /\ StepsBeforeCommit(p)
                  /\ calls[p].commit + calls[p].amend = 1
                  /\ calls[p].clear <= 1
                  /\ calls[p].clear = 1 => recorded[p] # Undefined
                  /\ recorded[p] # Undefined
                         => recorded[p] =
                                formatCommitMessage(CleanResponse(response[p]), prefix[p],
                                                    prefixFormat(ConfigOf(p)))

\* The characters that end the double quoting of the shell or are expanded
\* within it; the texts here are over an alphabet without the backtick.
ShellSpecial == {"\"", "$"}

\* C29: for every model output and every prefix, the message the commit or the
\* amend recorded is the final formatted message the run displayed, and the
\* string put between the double quotes of the shell command holds no double
\* quote, backtick or dollar character.
C29_RecordsFinalMessage ==
    \A p \in Procs :
        RanCommit(p)
            => /\ \A i \in 1..Len(finalMessage[p]) : finalMessage[p][i] \notin ShellSpecial
               /\ recorded[p] # Undefined => recorded[p] = finalMessage[p]

\* C25: in every run and every mode, regenerate mode on a last commit whose
\* diff is empty included, the model is called only with a non-empty diff
\* payload: an empty payload is never sent.
C25_NoEmptyPayload ==
    \A p \in Procs : BuiltPrompt(p) => ~IsEmptyText(prompt[p].payload)

\* C26: a stored collection whose repository field differs from the current
\* repository root is never deleted or overwritten except by an explicit
\* clear-notes command: an add run from the current repository leaves the notes
\* already in the file in place, and a successful commit or amend does not
\* remove the file.
C26_ForeignNotesKept ==
    \A p \in Procs :
        (InRun(p) /\ ForeignNotes(p) /\ ~ClearCommand(opts[p]))
            => notesFile = notesBefore[p]

\* The step is the cleanup of invocation p deleting the notes file.
CleanupDeletes(p) ==
    /\ pc[p] = "cleanup" /\ pc'[p] = "done"
    /\ notesFile.exists /\ ~notesFile'.exists

\* The messages the prompt of invocation p listed.
PromptNotes(p) == {prompt[p].notes[i] : i \in 1..Len(prompt[p].notes)}

\* C27: every note the cleanup after a successful commit or amend deletes was
\* in the prompt sent to the model in that run, and whenever the prompt held a
\* note the cleanup runs, also when another invocation adds a note to the file
\* between the run's two loads or between the prompt and the cleanup.
C27_CleanupMatchesPrompt ==
    [][\A p \in Procs :
          /\ CleanupDeletes(p)
                 => \A i \in 1..Len(notesFile.notes) :
                        notesFile.notes[i].message \in PromptNotes(p)
          /\ (pc[p] = "cleanup" /\ pc'[p] = "done" /\ prompt[p].notes # <<>>)
                 => calls'[p].clear = 1]_vars

\* C28: whenever the payload sent to the model is a raw diff rather than a
\* summary, its length is at most the size ceiling of 30,000 characters, in
\* generate mode and in regenerate mode alike.
C28_RawDiffWithinCeiling ==
    \A p \in Procs :
        (BuiltPrompt(p) /\ prompt[p].payload.source = "diff")
            => prompt[p].payload.diff.len <= maxDiffLength

\* C30: every prefix branch detection produces passes the prefix pattern
\* check: for every branch name, if extractPrefixFromBranch returns a prefix
\* then validatePrefix accepts it, and it is upper-case; so does every prefix a
\* run resolved from its branch.
C30_DetectedPrefixValid ==
    /\ LET detected == extractPrefixFromBranch(branch)
       IN detected # Null
              => /\ validatePrefix(detected)
                 /\ \A i \in 1..Len(detected) : IsLetter(detected[i]) => IsUpper(detected[i])
    /\ \A p \in Procs :
           (DetectsFromBranch(p) /\ prefix[p] # Null)
               => /\ validatePrefix(prefix[p])
                  /\ \A i \in 1..Len(prefix[p]) : IsLetter(prefix[p][i]) => IsUpper(prefix[p][i])

\* A run resolved the prefix JR-12 from the branch jr-12, which spells the
\* ticket in lower case.
C30_Witness ==
    \E p \in Procs :
        /\ DetectsFromBranch(p)
        /\ branch = <<"j", "r", "-", "1", "2">>
        /\ prefix[p] = <<"J", "R", "-", "1", "2">>
        /\ validatePrefix(prefix[p])

====
